---- MODULE Spec2Model ----
(***************************************************************************)
(* Model of yagami-decryption-agency: the whole-buffer cipher of           *)
(* src/main.rs (xor, pad, rotate, decrypt, encrypt) and the chunking       *)
(* iterator adapter of src/array_chunks_pad.rs (ArrayChunksPad::next).     *)
(*                                                                         *)
(* A u64 is a function 0..63 -> {0,1} (bit k has weight 2^k): 64-bit       *)
(* values do not fit the model checker's integers, and the bit vector      *)
(* keeps the full width of the rotation.  A byte is an integer 0..255.     *)
(* A Vec<u8> is a sequence of bytes; Rust index p is TLA+ index p+1.       *)
(***************************************************************************)
EXTENDS Integers, Sequences, FiniteSets, TLC

VARIABLES
    key,        \* name of the key table passed to decrypt/encrypt
    input,      \* the bytes read from the input file (par)
    data,       \* the buffer returned by the last operation
    prev,       \* the buffer the last operation was called with
    ops,        \* the operations applied so far, in order
    keyUsed,    \* last operation: key index consumed by xor for each byte
    rotUsed,    \* last operation: rotation amount used by rotate per chunk
    rotLen,     \* last operation: length of the buffer handed to rotate
    panicked,   \* last operation: try_into().unwrap() panicked in rotate
    source,     \* adapter: the elements of the underlying iterator
    width,      \* adapter: the const parameter N
    filler,     \* adapter: self.filler
    taken,      \* adapter: elements the underlying iterator has yielded
    iter,       \* adapter: self.iter, "Some" or "None"
    remainder,  \* adapter: ArrayChunks.remainder, <<>> (None) or <<seq>>
    ret,        \* adapter: value returned by the last next() call
    emitted,    \* adapter: arrays returned as Some(..) so far, in order
    padFlags,   \* adapter: for each emitted array, whether it was padded
    pulls,      \* adapter: calls made to the underlying iterator's next()
    calls,      \* adapter: calls made to ArrayChunksPad::next
    apanic      \* adapter: an unwrap() or an index panicked

cipherVars == <<key, input, data, prev, ops, keyUsed, rotUsed, rotLen, panicked>>
adapterVars == <<source, width, filler, taken, iter, remainder, ret, emitted,
                 padFlags, pulls, calls, apanic>>
vars == <<cipherVars, adapterVars>>

-----------------------------------------------------------------------------
(* Bounds of the model *)

MaxShortLen == 17   \* short inputs have 0..MaxShortLen bytes
MaxExtra == 9       \* long inputs have KeyLen..KeyLen+MaxExtra bytes
MaxOps == 2         \* operations applied in a row to one buffer
MaxSrcLen == 5      \* adapter: longest source
MaxN == 4           \* adapter: largest chunk width N
MaxCalls == 8       \* adapter: next() calls made on one adapter

-----------------------------------------------------------------------------
(* Program constants *)

KeyLen == 512       \* [u8; 512]
ChunkLen == 8       \* data.chunks_mut(8), data.len() % 8
WordBits == 64      \* u64, i % 64

Min(a, b) == IF a < b THEN a ELSE b

-----------------------------------------------------------------------------
(* Bytes and 64-bit words *)

RECURSIVE XorBits(_, _, _)
XorBits(a, b, n) ==
    IF n = 0 THEN 0
    ELSE (((a % 2) + (b % 2)) % 2) + 2 * XorBits(a \div 2, b \div 2, n - 1)

\* u8 ^ u8
XorByte(a, b) == XorBits(a, b, 8)

\* u64::from_le_bytes: byte j (0-based) holds bits 8j .. 8j+7
from_le_bytes(chunk) ==
    [k \in 0..(WordBits - 1) |-> (chunk[(k \div 8) + 1] \div (2 ^ (k % 8))) % 2]

\* u64::to_le_bytes
to_le_bytes(v) ==
    [j \in 1..ChunkLen |->
        v[8 * (j - 1)] + 2 * v[8 * (j - 1) + 1] + 4 * v[8 * (j - 1) + 2]
        + 8 * v[8 * (j - 1) + 3] + 16 * v[8 * (j - 1) + 4]
        + 32 * v[8 * (j - 1) + 5] + 64 * v[8 * (j - 1) + 6]
        + 128 * v[8 * (j - 1) + 7]]

\* u64::rotate_left(n): bit k moves to bit (k + n) mod 64
u64_rotate_left(v, n) ==
    [k \in 0..(WordBits - 1) |-> v[(k + WordBits - (n % WordBits)) % WordBits]]

-----------------------------------------------------------------------------
(* Key tables.  decrypt and encrypt take the table as a parameter; the two  *)
(* 512-byte blobs embedded with include_bytes! are not among the sources,  *)
(* so two 512-byte tables whose 64 words all differ stand for them.        *)

CHARA_KEY == [j \in 1..KeyLen |-> ((j - 1) * 37 + ((j - 1) \div 64) * 11 + 172) % 256]
CHARA2_KEY == [j \in 1..KeyLen |-> ((j - 1) * 91 + ((j - 1) \div 32) * 7 + 1) % 256]

KeyNames == {"chara", "chara2"}
KeyTable(name) == IF name = "chara" THEN CHARA_KEY ELSE CHARA2_KEY

-----------------------------------------------------------------------------
(* xor: data[i] ^= key.iter().cycle().next() *)

\* the index of the key byte the cycling iterator yields at its p-th next()
KeyIndex_skip(table, p) == (p + 1) % Len(table)
KeyIndex(table, p) == p % Len(table)

xor(d, table) ==
    [p \in 1..Len(d) |-> XorByte(d[p], table[KeyIndex(table, p - 1) + 1])]

xorTrace(d, table) == [p \in 1..Len(d) |-> KeyIndex(table, p - 1)]

-----------------------------------------------------------------------------
(* pad: resize to the next multiple of 8 with zero bytes *)

pad_never(d) == d
pad_always(d) == d \o [j \in 1..(ChunkLen - (Len(d) % ChunkLen)) |-> 0]
pad(d) ==
    LET rem == Len(d) % ChunkLen
    IN  IF rem # 0
        THEN d \o [j \in 1..((Len(d) - rem + ChunkLen) - Len(d)) |-> 0]
        ELSE d

-----------------------------------------------------------------------------
(* rotate::<LEFT>: both arms of the if call rotate_left, as in the source  *)

NumChunks(d) == (Len(d) + ChunkLen - 1) \div ChunkLen
Chunk(d, i) == SubSeq(d, ChunkLen * i + 1, Min(ChunkLen * i + ChunkLen, Len(d)))

\* (i % 64) as u32
RotAmount(i) == i % WordBits

RotateChunk(LEFT, i, chunk) ==
    LET value == from_le_bytes(chunk)
        value_rotated == IF LEFT
                         THEN u64_rotate_left(value, RotAmount(i))
                         ELSE u64_rotate_left(value, RotAmount(i))
    IN  to_le_bytes(value_rotated)

\* a chunk shorter than 8 bytes makes try_into().unwrap() panic
RotatePanics(d) == Len(d) % ChunkLen # 0

\* the buffer after the loop (up to the panic, if any)
rotate(LEFT, d) ==
    [p \in 1..Len(d) |->
        LET i == (p - 1) \div ChunkLen
        IN  IF Len(Chunk(d, i)) = ChunkLen
            THEN RotateChunk(LEFT, i, Chunk(d, i))[((p - 1) % ChunkLen) + 1]
            ELSE d[p]]

rotateTrace(d) == [c \in 1..NumChunks(d) |-> RotAmount(c - 1)]

rotate_left(d) == rotate(TRUE, d)
rotate_right(d) == rotate(FALSE, d)

-----------------------------------------------------------------------------
(* decrypt: xor, pad, rotate_left.  encrypt: pad, rotate_right, xor.       *)

decrypt(d, table) ==
    LET x == xor(d, table)
        padded == pad(x)
    IN  [out |-> rotate_left(padded), keyUsed |-> xorTrace(d, table),
         rotUsed |-> rotateTrace(padded), rotLen |-> Len(padded),
         panicked |-> RotatePanics(padded)]

encrypt(d, table) ==
    LET padded == pad(d)
        r == rotate_right(padded)
    IN  [out |-> xor(r, table), keyUsed |-> xorTrace(r, table),
         rotUsed |-> rotateTrace(padded), rotLen |-> Len(padded),
         panicked |-> RotatePanics(padded)]

-----------------------------------------------------------------------------
(* Inputs *)

Patterns == {"zero", "key", "ramp", "one", "top"}

InputByte(pat, k, p) ==
    CASE pat = "zero" -> 0
      [] pat = "key"  -> KeyTable(k)[((p - 1) % KeyLen) + 1]
      [] pat = "ramp" -> (p * 29 + 1) % 256
      [] pat = "one"  -> IF (p - 1) % ChunkLen = 0 THEN 1 ELSE 0
      [] OTHER        -> IF (p - 1) % ChunkLen = 7 THEN 128 ELSE 3

InputLens == (0..MaxShortLen) \cup (KeyLen..(KeyLen + MaxExtra))

MakeInput(pat, k, len) == [p \in 1..len |-> InputByte(pat, k, p)]

AdapterIdle ==
    /\ source = <<>> /\ width = 1 /\ filler = 0 /\ taken = 0
    /\ iter = "None" /\ remainder = <<>> /\ ret = [tag |-> "init"] /\ emitted = <<>>
    /\ padFlags = <<>> /\ pulls = 0 /\ calls = 0 /\ apanic = FALSE

Init ==
    /\ key \in KeyNames
    /\ \E pat \in Patterns, len \in InputLens : input = MakeInput(pat, key, len)
    /\ data = input
    /\ prev = <<>>
    /\ ops = <<>>
    /\ keyUsed = <<>>
    /\ rotUsed = <<>>
    /\ rotLen = 0
    /\ panicked = FALSE
    /\ AdapterIdle

Apply(name, r) ==
    /\ ops' = Append(ops, name)
    /\ prev' = data
    /\ data' = r.out
    /\ keyUsed' = r.keyUsed
    /\ rotUsed' = r.rotUsed
    /\ rotLen' = r.rotLen
    /\ panicked' = r.panicked
    /\ UNCHANGED <<key, input>>
    /\ UNCHANGED adapterVars

Decrypt ==
    /\ Len(ops) < MaxOps
    /\ ~panicked
    /\ Apply("decrypt", decrypt(data, KeyTable(key)))

Encrypt ==
    /\ Len(ops) < MaxOps
    /\ ~panicked
    /\ Apply("encrypt", encrypt(data, KeyTable(key)))

Next == Decrypt \/ Encrypt

Spec == Init /\ [][Next]_vars

-----------------------------------------------------------------------------
(* ArrayChunksPad over core::iter::ArrayChunks                             *)

Elements == {1, 2}
Fillers == {0, 2}

None == [tag |-> "None"]
Some(arr, padded) == [tag |-> "Some", val |-> arr, padded |-> padded]

RECURSIVE SeqsUpTo(_)
SeqsUpTo(n) ==
    IF n = 0 THEN {<<>>}
    ELSE LET shorter == SeqsUpTo(n - 1)
         IN  shorter \cup {Append(s, e) : s \in {t \in shorter : Len(t) = n - 1},
                                          e \in Elements}

\* ArrayChunks::next: next_chunk() pulls N elements; when the source ends
\* first, the elements pulled go to self.remainder (get_or_insert keeps an
\* earlier remainder) and the result is None.
ArrayChunks_next(src, n, tk, rem) ==
    IF Len(src) - tk >= n
    THEN [el |-> Some(SubSeq(src, tk + 1, tk + n), FALSE), taken |-> tk + n,
          remainder |-> rem, pulled |-> n]
    ELSE [el |-> None, taken |-> Len(src),
          remainder |-> IF rem = <<>> THEN <<SubSeq(src, tk + 1, Len(src))>> ELSE rem,
          pulled |-> (Len(src) - tk) + 1]

\* self.iter after self.iter.take()
iter_keep == "Some"
iter_take == "None"

\* let mut result = [self.filler; N]; result[i] = remains
PadRemainder_zero(rest, n, f) == [j \in 1..n |-> IF j <= Len(rest) THEN rest[j] ELSE 0]
PadRemainder(rest, n, f) == [j \in 1..n |-> IF j <= Len(rest) THEN rest[j] ELSE f]

CipherIdle ==
    /\ key = "chara" /\ input = <<>> /\ data = <<>> /\ prev = <<>> /\ ops = <<>>
    /\ keyUsed = <<>> /\ rotUsed = <<>> /\ rotLen = 0 /\ panicked = FALSE

InitAdapter ==
    /\ source \in SeqsUpTo(MaxSrcLen)
    /\ width \in 1..MaxN
    /\ filler \in Fillers
    /\ taken = 0
    /\ iter = "Some"
    /\ remainder = <<>>
    /\ ret = [tag |-> "init"]
    /\ emitted = <<>>
    /\ padFlags = <<>>
    /\ pulls = 0
    /\ calls = 0
    /\ apanic = FALSE
    /\ CipherIdle

\* ArrayChunksPad::next
ArrayChunksPad_next ==
    /\ calls < MaxCalls
    /\ ~apanic
    /\ calls' = calls + 1
    /\ IF iter = "Some"
       THEN LET r == ArrayChunks_next(source, width, taken, remainder)
            IN  /\ taken' = r.taken
                /\ pulls' = pulls + r.pulled
                /\ remainder' = r.remainder
                /\ IF r.el = None
                   THEN /\ iter' = iter_take
                        /\ IF r.remainder = <<>> \/ Len(r.remainder[1]) > width
                           THEN \* into_remainder().unwrap() or result[i] panics
                                /\ apanic' = TRUE
                                /\ UNCHANGED <<ret, emitted, padFlags>>
                           ELSE /\ apanic' = FALSE
                                /\ IF Len(r.remainder[1]) > 0
                                   THEN LET result == PadRemainder(r.remainder[1], width, filler)
                                        IN  /\ ret' = Some(result, TRUE)
                                            /\ emitted' = Append(emitted, result)
                                            /\ padFlags' = Append(padFlags, TRUE)
                                   ELSE /\ ret' = None
                                        /\ UNCHANGED <<emitted, padFlags>>
                   ELSE /\ ret' = r.el
                        /\ emitted' = Append(emitted, r.el.val)
                        /\ padFlags' = Append(padFlags, FALSE)
                        /\ UNCHANGED <<iter, apanic>>
       ELSE /\ ret' = None
            /\ UNCHANGED <<taken, pulls, remainder, iter, emitted, padFlags, apanic>>
    /\ UNCHANGED <<source, width, filler>>
    /\ UNCHANGED cipherVars

NextAdapter == ArrayChunksPad_next

SpecAdapter == InitAdapter /\ [][NextAdapter]_vars

-----------------------------------------------------------------------------
(* The specification's own vocabulary, used to state the claims            *)

LastOp == IF Len(ops) = 0 THEN "none" ELSE ops[Len(ops)]
CeilDiv(a, b) == (a + b - 1) \div b
Zeros(n) == [j \in 1..n |-> 0]
\* b followed by zero bytes up to the next multiple of 8
ZeroPadded(b) == b \o Zeros(CeilDiv(Len(b), ChunkLen) * ChunkLen - Len(b))
\* the j-th little-endian 64-bit word of the key table, as its 8 bytes
KeyWord(table, j) == SubSeq(table, ChunkLen * j + 1, ChunkLen * j + ChunkLen)
Xor64(v, w) == [k \in 0..(WordBits - 1) |-> (v[k] + w[k]) % 2]
\* rotate_right by n: bit k moves to bit (k - n) mod 64
RotR64(v, n) == [k \in 0..(WordBits - 1) |-> v[(k + n) % WordBits]]
RotL64(v, n) == [k \in 0..(WordBits - 1) |-> v[(k + WordBits - n) % WordBits]]
\* v_i: the word of the i-th chunk of the zero-padded input
PaddedWord(b, i) == from_le_bytes(Chunk(ZeroPadded(b), i))
IsRoundTrip == ops = <<"encrypt", "decrypt">>

\* C1: after encrypt then decrypt of a non-empty input whose length is a
\* multiple of 8, the buffer equals the input.
C1_RoundTrip ==
    (IsRoundTrip /\ Len(input) > 0 /\ Len(input) % ChunkLen = 0) => data = input

\* C2: every encrypt and every decrypt returns exactly ceil(L/8)*8 bytes for
\* an input of L bytes (no truncation, no growth of an aligned input, empty
\* stays empty).
C2_OutputLength ==
    Len(ops) > 0 =>
        /\ Len(data) = CeilDiv(Len(prev), ChunkLen) * ChunkLen
        /\ (Len(prev) % ChunkLen = 0 => Len(data) = Len(prev))
        /\ (prev = <<>> => data = <<>>)

C2_Witness ==
    /\ ops = <<"decrypt", "encrypt">>
    /\ Len(input) = 13
    /\ Len(prev) = 16
    /\ Len(data) = 16

\* C3: after encrypt then decrypt of an input whose length is not a multiple
\* of 8, the buffer equals the input followed by zero bytes up to
\* ceil(len/8)*8.
C3_PaddedRoundTrip ==
    (IsRoundTrip /\ Len(input) % ChunkLen # 0) => data = ZeroPadded(input)

\* C5: decrypting one all-zero 8-byte chunk yields the bytes of key word 0,
\* and encrypting the bytes of key word 0 yields 8 zero bytes.
C5_ZeroChunk ==
    /\ (LastOp = "decrypt" /\ prev = Zeros(ChunkLen))
           => data = KeyWord(KeyTable(key), 0)
    /\ (LastOp = "encrypt" /\ prev = KeyWord(KeyTable(key), 0))
           => data = Zeros(ChunkLen)

C5_Witness ==
    /\ ops = <<"decrypt", "encrypt">>
    /\ input = Zeros(ChunkLen)
    /\ prev = KeyWord(KeyTable(key), 0)
    /\ data = Zeros(ChunkLen)
    /\ key = "chara2"

\* C6: every output word i of decrypt is rotate_left(v_i XOR K[i mod 64],
\* i mod 64), v_i being the word of the i-th chunk of the zero-padded input.
C6_DecryptWord ==
    LastOp = "decrypt" =>
        /\ Len(data) = Len(ZeroPadded(prev))
        /\ \A i \in 0..(NumChunks(prev) - 1) :
              Chunk(data, i) =
                  to_le_bytes(RotL64(
                      Xor64(PaddedWord(prev, i),
                            from_le_bytes(KeyWord(KeyTable(key), i % WordBits))),
                      i % WordBits))

\* C7: every output word i of encrypt is rotate_right(v_i, i mod 64) XOR
\* K[i mod 64].
C7_EncryptWord ==
    LastOp = "encrypt" =>
        /\ Len(data) = Len(ZeroPadded(prev))
        /\ \A i \in 0..(NumChunks(prev) - 1) :
              Chunk(data, i) =
                  to_le_bytes(Xor64(
                      RotR64(PaddedWord(prev, i), i % WordBits),
                      from_le_bytes(KeyWord(KeyTable(key), i % WordBits))))

\* C8: in encrypt and in decrypt, chunk i is combined with exactly the key
\* bytes 8*(i mod 64) .. 8*(i mod 64)+7 in order, and chunk i+64 uses the same
\* key bytes and the same rotation amount as chunk i.
C8_Keystream ==
    Len(ops) > 0 =>
        \A i \in 0..(Len(rotUsed) - 1) :
            /\ \A k \in 0..(ChunkLen - 1) :
                  /\ ChunkLen * i + k + 1 <= Len(keyUsed)
                  /\ keyUsed[ChunkLen * i + k + 1] = ChunkLen * (i % WordBits) + k
            /\ i + WordBits < Len(rotUsed) =>
                  /\ rotUsed[i + WordBits + 1] = rotUsed[i + 1]
                  /\ \A k \in 0..(ChunkLen - 1) :
                        ChunkLen * (i + WordBits) + k + 1 <= Len(keyUsed) =>
                            keyUsed[ChunkLen * (i + WordBits) + k + 1]
                                = keyUsed[ChunkLen * i + k + 1]

\* C10: the buffer handed to rotate always has a length that is a multiple
\* of 8, so the conversion of a chunk to [u8; 8] never panics.
C10_RotateAligned ==
    Len(ops) > 0 => (rotLen % ChunkLen = 0 /\ ~panicked)

C10_Witness ==
    /\ ops = <<"encrypt">>
    /\ Len(prev) = KeyLen + 3
    /\ rotLen = KeyLen + ChunkLen
    /\ Len(rotUsed) = WordBits + 1
    /\ ~panicked

-----------------------------------------------------------------------------
(* Claims about the adapter, under SpecAdapter                             *)

\* what array_chunks_pad::<N>(f) is to yield for a source
Expected(src, n, f) ==
    [c \in 1..CeilDiv(Len(src), n) |->
        [j \in 1..n |-> IF (c - 1) * n + j <= Len(src)
                        THEN src[(c - 1) * n + j] ELSE f]]
ExpectedPadFlags(src, n) ==
    [c \in 1..CeilDiv(Len(src), n) |->
        (c = CeilDiv(Len(src), n) /\ Len(src) % n # 0)]

\* C4: when next() has returned None, the arrays yielded are exactly the
\* ceil(L/N) arrays of N consecutive source elements, the last one filled up
\* with the filler when L mod N # 0, and no padded array otherwise.
C4_ChunkingResult ==
    ret = None =>
        /\ emitted = Expected(source, width, filler)
        /\ padFlags = ExpectedPadFlags(source, width)

C4_Witness ==
    /\ ret = None
    /\ Len(source) = 5
    /\ width = 3
    /\ filler = 2
    /\ emitted = <<SubSeq(source, 1, 3), <<source[4], source[5], 2>>>>
    /\ source[5] = 1

Finished == ret = None \/ (ret.tag = "Some" /\ ret.padded)

\* C9: a padded array is returned at most once and only as the last array;
\* once next() has returned the padded array or None, every later call
\* returns None, does not panic and does not pull from the source.
C9_Termination ==
    [][/\ \A c \in 1..Len(padFlags') : padFlags'[c] => c = Len(padFlags')
       /\ ~apanic'
       /\ Finished => (ret' = None /\ pulls' = pulls /\ emitted' = emitted)]_vars

C9_Witness ==
    /\ ret = None
    /\ Len(padFlags) = 2
    /\ padFlags[2]
    /\ calls = 5
    /\ pulls = Len(source) + 1

====
